---- MODULE Spec2Model ----
(***************************************************************************)
(* Weather scripts of disco-ai-module-2: the four chatbot bindings          *)
(* (weather_bot_groq.py, weather_bot.py, weather_bot_gemini.py,             *)
(* weather_bot_openai.py) and the coordinate program weather.py.            *)
(*                                                                          *)
(* Text is a sequence of chunks: a chunk is one character where the code    *)
(* looks at characters (strip, upper, lower, ==) and a longer literal       *)
(* elsewhere.  Python values that may be None are records with a tag.       *)
(***************************************************************************)
EXTENDS Integers, Sequences, FiniteSets, TLC

VARIABLES program,       \* which script runs
          pc,            \* position of the script's thread of control
          eof,           \* stdin has reached end-of-input
          query,         \* argument of handle_user_query
          calls,         \* outbound calls of the current query, in order
          verdict,       \* result of is_weather_query
          location,      \* result of extract_location_from_query
          weather_data,  \* result of get_weather_by_location / get_weather
          reply,         \* result of handle_user_query
          printed,       \* lines printed since the last prompt
          latitude,      \* weather.py: accepted latitude
          longitude,     \* weather.py: accepted longitude
          keys,          \* which API keys the environment provides
          exit_code,     \* process exit status, Running until it ends
          user_input,    \* the line read by the current loop iteration
          interrupted    \* a KeyboardInterrupt has been delivered

vars == <<program, pc, eof, query, calls, verdict, location, weather_data,
          reply, printed, latitude, longitude, keys, exit_code,
          user_input, interrupted>>

(***************************************************************************)
(* Text helpers: str.strip(), str.upper(), str.lower()                      *)
(***************************************************************************)
Whitespace == {" ", "\n", "\t"}

Lowercase == <<"a","b","c","d","e","f","g","h","i","j","k","l","m",
               "n","o","p","q","r","s","t","u","v","w","x","y","z">>

Uppercase == <<"A","B","C","D","E","F","G","H","I","J","K","L","M",
               "N","O","P","Q","R","S","T","U","V","W","X","Y","Z">>

UpperChar(c) ==
    IF \E i \in 1..26 : Lowercase[i] = c
    THEN Uppercase[CHOOSE i \in 1..26 : Lowercase[i] = c]
    ELSE c

LowerChar(c) ==
    IF \E i \in 1..26 : Uppercase[i] = c
    THEN Lowercase[CHOOSE i \in 1..26 : Uppercase[i] = c]
    ELSE c

Upper(s) == [i \in 1..Len(s) |-> UpperChar(s[i])]

Lower(s) == [i \in 1..Len(s) |-> LowerChar(s[i])]

RECURSIVE LStrip(_)
LStrip(s) ==
    IF s # <<>> /\ Head(s) \in Whitespace THEN LStrip(Tail(s)) ELSE s

RECURSIVE RStrip(_)
RStrip(s) ==
    IF s # <<>> /\ s[Len(s)] \in Whitespace
    THEN RStrip(SubSeq(s, 1, Len(s) - 1))
    ELSE s

Strip(s) == RStrip(LStrip(s))

(***************************************************************************)
(* Python values                                                            *)
(***************************************************************************)
PyNone == [tag |-> "None", s |-> <<>>]

PyStr(s) == [tag |-> "str", s |-> s]

\* truth value of an Optional[str]: None and "" are falsy
TruthyStr(v) == v.tag = "str" /\ v.s # <<>>

\* a JSON number as written by the provider: an integer literal (frac = -1)
\* or a decimal literal with one fractional digit
Num(i, frac) == [i |-> i, frac |-> frac]

\* JSON null where a number is expected: None in Python
Null == [i |-> 0, frac |-> -2]

\* str() of a JSON number inside an f-string
Fmt(x) ==
    IF x.frac = -1 THEN <<ToString(x.i)>>
    ELSE <<ToString(x.i), ".", ToString(x.frac)>>

\* mutant: the threshold is inclusive
GreaterThan50_inclusive(x) == x.i >= 50

\* x > 50 for a non-negative JSON number
GreaterThan50(x) == x.i > 50 \/ (x.i = 50 /\ x.frac > 0)

\* the value of response.json(): has is the set of top-level keys
NoData == [tag |-> "None", has |-> {}, name |-> <<>>, country |-> <<>>,
           temp_c |-> Num(0, -1), humidity |-> Num(0, -1),
           cloud |-> Num(0, -1), wind_kph |-> Num(0, -1),
           condition |-> <<>>]

Record(name, country, temp, hum, cloud, wind, cond) ==
    [tag |-> "dict", has |-> {"location", "current"}, name |-> name,
     country |-> country, temp_c |-> temp, humidity |-> hum,
     cloud |-> cloud, wind_kph |-> wind, condition |-> cond]

EmptyDict == [NoData EXCEPT !.tag = "dict"]

ErrorDict == [NoData EXCEPT !.tag = "dict", !.has = {"error"}]

Unparseable == [NoData EXCEPT !.tag = "unparseable"]

\* truth value of get_weather_by_location's result: None and {} are falsy
TruthyData(d) == d.tag = "dict" /\ d.has # {}

(***************************************************************************)
(* Backend outcomes                                                         *)
(***************************************************************************)
Outcome(kind, text, status, body) ==
    [kind |-> kind, text |-> text, status |-> status, body |-> body]

Pending == Outcome("pending", <<>>, 0, NoData)

\* the language-model call raises (timeout, connection error, API error)
LMRaise == Outcome("raise", <<>>, 0, NoData)

\* the call returns a response without text (no choices, content None, a
\* blocked Gemini response): reading the text raises inside the try block
LMNoText == Outcome("notext", <<>>, 0, NoData)

LMText(t) == Outcome("text", t, 0, NoData)

\* requests.get raises (timeout, connection error)
Transport == Outcome("transport", <<>>, 0, NoData)

Http(status, body) == Outcome("http", <<>>, status, body)

YES == <<"Y","E","S">>

UNKNOWN == <<"U","N","K","N","O","W","N">>

ClassifierTexts ==
    { YES, <<"Y","e","s">>, <<"y","e","s">>,
      <<"N","O">>, <<"N","o">>, <<"n","o">>,
      <<" ","Y","E","S","\n">>, <<"n","o","\n">>,
      <<"M","a","y","b","e">>, <<"Y","E","S",".">>, <<>> }

ClassifierOutcomes == {LMRaise, LMNoText} \cup {LMText(t) : t \in ClassifierTexts}

Paris == <<"P","a","r","i","s">>

ExtractorTexts ==
    { Paris, <<" ">> \o Paris \o <<"\n">>, <<"Z","z","q">>,
      UNKNOWN, <<"u","n","k","n","o","w","n">>, <<"U","n","k","n","o","w","n">>,
      <<" ">> \o UNKNOWN \o <<"\n">>, <<>>, <<" ","\n">> }

ExtractorOutcomes == {LMRaise, LMNoText} \cup {LMText(t) : t \in ExtractorTexts}

Records ==
    { Record(Paris, <<"France">>, Num(30, -1), Num(40, -1), Num(80, -1),
             Num(15, -1), <<"Sunny">>),
      Record(Paris, <<"France">>, Num(12, 5), Num(71, -1), Num(50, -1),
             Num(9, 4), <<"Partly cloudy">>),
      Record(<<"Z","z","q">>, <<"Nowhere">>, Num(0, 0), Num(100, -1),
             Num(51, -1), Num(0, -1), <<"Mist">>),
      Record(Paris, <<"France">>, Num(18, -1), Num(60, -1), Num(49, -1),
             Num(5, -1), <<"Clear">>) }

\* a body with every key the composer reads, whose cloud cover is null
NullCloudRecord ==
    Record(Paris, <<"France">>, Num(30, -1), Num(40, -1), Null, Num(15, -1),
           <<"Sunny">>)

WeatherOutcomes ==
    {Transport, Http(400, NoData), Http(401, NoData), Http(500, NoData)}
    \cup {Http(200, b) : b \in Records \cup {EmptyDict, ErrorDict, Unparseable,
                                              NullCloudRecord}}

ComposerTexts ==
    { <<"It is sunny in Paris.">>, <<" ", "It is 30 degrees.", "\n">> }

ComposerOutcomes == {LMRaise, LMNoText} \cup {LMText(t) : t \in ComposerTexts}

Bindings == {"groq", "claude", "gemini", "openai"}

\* the bindings whose comparisons go through str.upper()
UpperBindings == {"groq", "openai"}

(***************************************************************************)
(* Pipeline stages                                                          *)
(***************************************************************************)
\* The four bindings share the stage code up to the comparison of the
\* trimmed reply: weather_bot_groq.py:112,150 and weather_bot_openai.py:108,142
\* compare reply.upper(); weather_bot.py:135,180 and
\* weather_bot_gemini.py:106,129 compare the reply itself.
\* mutant: the except clause refuses the query (fail-closed)
is_weather_query_fail_closed(b, out) ==
    IF out.kind # "text" THEN FALSE
    ELSE IF b \in UpperBindings THEN Upper(Strip(out.text)) = YES
    ELSE Strip(out.text) = YES

is_weather_query(b, out) ==
    IF out.kind # "text" THEN TRUE
    ELSE IF b \in UpperBindings THEN Upper(Strip(out.text)) = YES
    ELSE Strip(out.text) = YES

\* mutant: a failed call falls back to a default city
extract_location_default_city(b, out) ==
    IF out.kind # "text" THEN PyStr(Paris)
    ELSE IF b \in UpperBindings /\ Upper(Strip(out.text)) = UNKNOWN THEN PyNone
    ELSE IF b \notin UpperBindings /\ Strip(out.text) = UNKNOWN THEN PyNone
    ELSE PyStr(Strip(out.text))

\* mutant: a failed call yields the sentinel word itself as the location
extract_location_sentinel_on_error(b, out) ==
    IF out.kind # "text" THEN PyStr(UNKNOWN)
    ELSE IF b \in UpperBindings /\ Upper(Strip(out.text)) = UNKNOWN THEN PyNone
    ELSE IF b \notin UpperBindings /\ Strip(out.text) = UNKNOWN THEN PyNone
    ELSE PyStr(Strip(out.text))

\* mutant: every binding compares the sentinel through str.upper()
extract_location_all_upper(b, out) ==
    IF out.kind # "text" THEN PyNone
    ELSE IF Upper(Strip(out.text)) = UNKNOWN THEN PyNone
    ELSE PyStr(Strip(out.text))

extract_location_from_query(b, out) ==
    IF out.kind # "text" THEN PyNone
    ELSE IF b \in UpperBindings /\ Upper(Strip(out.text)) = UNKNOWN THEN PyNone
    ELSE IF b \notin UpperBindings /\ Strip(out.text) = UNKNOWN THEN PyNone
    ELSE PyStr(Strip(out.text))

\* mutant: response.json() is called outside the try block, so a body that
\* does not parse escapes as it is
get_weather_by_location_no_json_guard(out) ==
    IF out.kind # "http" THEN NoData
    ELSE IF out.status = 200 THEN out.body
    ELSE NoData

get_weather_by_location(out) ==
    IF out.kind # "http" THEN NoData
    ELSE IF out.status = 200
         THEN IF out.body.tag = "unparseable" THEN NoData ELSE out.body
    ELSE NoData

\* the key lookups that precede the try block succeed
HasWeatherKeys(d) == {"location", "current"} \subseteq d.has

\* mutant: temperature and humidity change places
FallbackSentence_swapped(d) ==
    <<"The current weather in ">> \o d.name \o <<" is a temperature of ">>
    \o Fmt(d.humidity) \o <<" degrees (C), a humidity of ">>
    \o Fmt(d.temp_c) \o <<"%", ", ", "there are ">>
    \o <<IF GreaterThan50(d.cloud) THEN "a lot of clouds" ELSE "few clouds">>
    \o <<" in the sky and a wind of ">> \o Fmt(d.wind_kph) \o <<"km/h", ".">>

FallbackSentence(d) ==
    <<"The current weather in ">> \o d.name \o <<" is a temperature of ">>
    \o Fmt(d.temp_c) \o <<" degrees (C), a humidity of ">>
    \o Fmt(d.humidity) \o <<"%", ", ", "there are ">>
    \o <<IF GreaterThan50(d.cloud) THEN "a lot of clouds" ELSE "few clouds">>
    \o <<" in the sky and a wind of ">> \o Fmt(d.wind_kph) \o <<"km/h", ".">>

\* mutant: the language-model text is dropped
generate_weather_response_always_fallback(q, d, out) ==
    PyStr(FallbackSentence(d))

PyRaised(e) == [tag |-> "raised", s |-> <<e>>]

\* the part after the key lookups: the language-model text, or in the except
\* clause the fallback f-string, whose "cloud > 50" raises TypeError for None
generate_weather_response(q, d, out) ==
    IF out.kind = "text" THEN PyStr(Strip(out.text))
    ELSE IF d.cloud = Null THEN PyRaised("TypeError")
    ELSE PyStr(FallbackSentence(d))

RedirectMessage ==
    <<"I'm a weather assistant. Please ask me about the weather in a specific location.">>

ClarificationMessage ==
    <<"I couldn't determine which location you're asking about. Could you please specify a city or place?">>

NotFoundMessage(loc) ==
    <<"I couldn't find weather information for '">> \o loc
    \o <<"'. Please check the spelling or try a different location.">>

\* handle_user_query, after each stage: where control goes and what is returned
Branch(next, r) == [next |-> next, reply |-> r]

\* mutant: the verdict does not gate the extractor
handle_classified_no_gate(v) ==
    Branch("extract", PyNone)

handle_classified(v) ==
    IF ~v THEN Branch("return", PyStr(RedirectMessage))
    ELSE Branch("extract", PyNone)

\* mutant: the location is not checked before fetching
handle_extracted_no_gate(loc) ==
    Branch("fetch", PyNone)

\* mutant: only None counts as an absent location ("if location is None")
handle_extracted_none_only(loc) ==
    IF loc = PyNone THEN Branch("return", PyStr(ClarificationMessage))
    ELSE Branch("fetch", PyNone)

handle_extracted(loc) ==
    IF ~TruthyStr(loc) THEN Branch("return", PyStr(ClarificationMessage))
    ELSE Branch("fetch", PyNone)

\* mutant: the not-found message names the record instead of the location
handle_fetched_names_record(loc, d) ==
    IF ~TruthyData(d) THEN Branch("return", PyStr(NotFoundMessage(d.name)))
    ELSE Branch("compose", PyNone)

\* mutant: an absent record is fetched again
handle_fetched_retry(loc, d) ==
    IF ~TruthyData(d) THEN Branch("fetch", PyNone)
    ELSE Branch("compose", PyNone)

\* mutant: a present record is answered without the composer
handle_fetched_skips_composer(loc, d) ==
    IF ~TruthyData(d) THEN Branch("return", PyStr(NotFoundMessage(loc.s)))
    ELSE Branch("return", PyStr(d.condition))

handle_fetched(loc, d) ==
    IF ~TruthyData(d) THEN Branch("return", PyStr(NotFoundMessage(loc.s)))
    ELSE Branch("compose", PyNone)

(***************************************************************************)
(* Operator-visible log lines of the stages                                 *)
(***************************************************************************)
VendorName(b) ==
    CASE b = "groq" -> "Groq"
      [] b = "claude" -> "Claude"
      [] b = "gemini" -> "Gemini"
      [] OTHER -> "OpenAI"

\* printed by the except clause of a language-model stage
lm_log(b, out) ==
    IF out.kind # "text"
    THEN << <<"Error connecting to ", VendorName(b), " API: ">> >>
    ELSE <<>>

\* printed by get_weather_by_location
weather_log(b, out) ==
    IF out.kind # "http" \/ (out.status = 200 /\ out.body.tag = "unparseable")
    THEN << <<"Error connecting to weather API: ">> >>
    ELSE IF out.status \in {200, 400} THEN <<>>
    ELSE IF b \in UpperBindings
         THEN << <<"Error: API request failed with status code ", ToString(out.status)>>,
                 <<"Response: ">> >>
    ELSE << <<"Error: API request failed with status code ", ToString(out.status)>> >>

(***************************************************************************)
(* The chatbot: main's loop and handle_user_query                           *)
(***************************************************************************)
Queries ==
    { <<"What's the weather in Paris?">>, <<"Tell me a joke">>,
      <<" ", "e","x","i","t">> }

ExitKeywords ==
    { <<"e","x","i","t">>, <<"q","u","i","t">>, <<"b","y","e">>,
      <<"g","o","o","d","b","y","e">> }

InputLines ==
    Queries
    \cup { <<"e","x","i","t">>, <<"Q","U","I","T">>, <<"B","y","e">>,
           <<"g","o","o","d","B","Y","E">>, <<>>, <<" ", "\t">> }

Farewell == <<"Goodbye! Have a great day!">>

Reminder == <<"Please ask a question about the weather.">>

ErrorLines ==
    << <<"An error occurred: ">>,
       <<"Please try again with a different question.">> >>

Call(stage, arg) == [stage |-> stage, arg |-> arg, out |-> Pending]

\* the call in flight completes with outcome out
Completed(cs, out) == [cs EXCEPT ![Len(cs)].out = out]

Running == -1

KeyName(b) ==
    CASE b = "groq" -> "GROQ_API_KEY"
      [] b = "claude" -> "ANTHROPIC_API_KEY"
      [] b = "gemini" -> "GEMINI_API_KEY"
      [] OTHER -> "OPENAI_API_KEY"

WeatherKeyLine ==
    <<"Error: WeatherAPI key not found. Please add WEATHER_API_KEY to your .env file.">>

LMKeyLine(b) ==
    <<"Error: ", VendorName(b), " API key not found. Please add ", KeyName(b),
      " to your .env file.">>

KeysOk == [ok |-> TRUE, line |-> <<>>]

KeyMissing(line) == [ok |-> FALSE, line |-> line]

\* mutant: only the weather key is checked
check_keys_weather_only(b, k) ==
    IF ~k.weather THEN KeyMissing(WeatherKeyLine) ELSE KeysOk

\* the two "if not <KEY>" checks at module level, in source order
check_keys(b, k) ==
    IF ~k.weather THEN KeyMissing(WeatherKeyLine)
    ELSE IF ~k.lm THEN KeyMissing(LMKeyLine(b))
    ELSE KeysOk

\* module level: the key checks that precede main; sys.exit(1) on a miss
Startup ==
    /\ program \in Bindings /\ pc = "start"
    /\ LET c == check_keys(program, keys)
       IN IF ~c.ok
          THEN /\ printed' = <<c.line>>
               /\ pc' = "exited"
               /\ exit_code' = 1
          ELSE /\ printed' = <<>>
               /\ pc' = "prompt"
               /\ exit_code' = exit_code
    /\ UNCHANGED <<program, eof, query, calls, verdict, location,
                   weather_data, reply, latitude, longitude, keys,
                   user_input, interrupted>>

\* mutant: the exit keywords are compared without lower()
is_exit_command_exact(line) == line \in ExitKeywords

\* user_input.lower() in ['exit', 'quit', 'bye', 'goodbye']
is_exit_command(line) == Lower(line) \in ExitKeywords

\* mutant: only the empty line counts as empty input
is_empty_input_no_strip(line) == line = <<>>

\* not user_input.strip()
is_empty_input(line) == Strip(line) = <<>>

\* input("Ask?: ") returns a line
Prompt ==
    /\ program \in Bindings /\ pc = "prompt" /\ ~eof
    /\ \E line \in InputLines :
          /\ user_input' = PyStr(line)
          /\ calls' = <<>>
          /\ verdict' = FALSE
          /\ location' = PyNone
          /\ weather_data' = NoData
          /\ reply' = PyNone
          /\ IF is_exit_command(line)
             THEN /\ printed' = <<Farewell>>
                  /\ pc' = "exited"
                  /\ exit_code' = 0
                  /\ query' = <<>>
             ELSE IF is_empty_input(line)
             THEN /\ printed' = <<Reminder>>
                  /\ pc' = "prompt"
                  /\ exit_code' = exit_code
                  /\ query' = <<>>
             ELSE /\ printed' = <<>>
                  /\ pc' = "classify"
                  /\ exit_code' = exit_code
                  /\ query' = line
    /\ UNCHANGED <<program, eof, latitude, longitude, keys, interrupted>>

\* mutant: an error ends the program, as it does in the two scripts
on_error_fatal(p) ==
    [next |-> "exited", code |-> 1, lines |-> ErrorLines]

\* the "except Exception" clause of main: two lines are printed and the loop
\* goes round again
on_error(p) ==
    [next |-> "prompt", code |-> Running, lines |-> ErrorLines]

\* input("Ask?: ") raises EOFError, on this call and on every later one;
\* control passes to main's "except Exception"
PromptEOF ==
    /\ program \in Bindings /\ pc = "prompt"
    /\ eof' = TRUE
    /\ printed' = <<>>
    /\ pc' = "eof_raised"
    /\ calls' = <<>>
    /\ verdict' = FALSE
    /\ location' = PyNone
    /\ weather_data' = NoData
    /\ reply' = PyNone
    /\ query' = <<>>
    /\ user_input' = PyNone
    /\ UNCHANGED <<program, latitude, longitude, keys, interrupted,
                   exit_code>>

InterruptFarewell == <<"\n">> \o Farewell

TerminatedLine == <<"\n", "Program terminated by user.">>

\* mutant: the interrupt is handled like any other exception
on_interrupt_as_error(p) ==
    IF p \in Bindings
    THEN [next |-> "prompt", code |-> Running, line |-> ErrorLines[1]]
    ELSE [next |-> "exited", code |-> 1,
          line |-> <<"An unexpected error occurred: ">>]

\* the "except KeyboardInterrupt" clause of main: the chatbots break out of
\* the loop and main returns, the scripts call sys.exit(0)
on_interrupt(p) ==
    IF p \in Bindings
    THEN [next |-> "exited", code |-> 0, line |-> InterruptFarewell]
    ELSE [next |-> "exited", code |-> 0, line |-> TerminatedLine]

\* the positions inside main's try block: at input(), in an outbound call
\* and between the calls
Interruptible ==
    {"prompt", "classify", "classify_wait", "extract", "extract_wait",
     "fetch", "fetch_wait", "compose", "compose_wait", "return",
     "lat_prompt", "lon_prompt", "get_weather", "get_weather_wait",
     "geo_prompt", "geo_fetch", "geo_wait"}

\* KeyboardInterrupt at the prompt or while the query is processed
Interrupt ==
    /\ pc \in Interruptible
    /\ LET r == on_interrupt(program)
       IN /\ printed' = Append(printed, r.line)
          /\ pc' = r.next
          /\ exit_code' = r.code
    /\ interrupted' = TRUE
    /\ user_input' = IF pc = "prompt" THEN PyNone ELSE user_input
    /\ UNCHANGED <<program, eof, query, calls, verdict, location,
                   weather_data, reply, latitude, longitude, keys>>

ClassifyCall ==
    /\ program \in Bindings /\ pc = "classify"
    /\ calls' = Append(calls, Call("classify", query))
    /\ pc' = "classify_wait"
    /\ UNCHANGED <<program, eof, query, verdict, location, weather_data,
                   reply, printed, latitude, longitude, keys, user_input, interrupted, exit_code>>

ClassifyReturn ==
    /\ program \in Bindings /\ pc = "classify_wait"
    /\ \E out \in ClassifierOutcomes :
          LET v == is_weather_query(program, out)
              br == handle_classified(v)
          IN /\ calls' = Completed(calls, out)
             /\ verdict' = v
             /\ printed' = printed \o lm_log(program, out)
             /\ reply' = br.reply
             /\ pc' = br.next
    /\ UNCHANGED <<program, eof, query, location, weather_data,
                   latitude, longitude, keys, user_input, interrupted, exit_code>>

ExtractCall ==
    /\ program \in Bindings /\ pc = "extract"
    /\ calls' = Append(calls, Call("extract", query))
    /\ pc' = "extract_wait"
    /\ UNCHANGED <<program, eof, query, verdict, location, weather_data,
                   reply, printed, latitude, longitude, keys, user_input, interrupted, exit_code>>

ExtractReturn ==
    /\ program \in Bindings /\ pc = "extract_wait"
    /\ \E out \in ExtractorOutcomes :
          LET loc == extract_location_from_query(program, out)
              br == handle_extracted(loc)
          IN /\ calls' = Completed(calls, out)
             /\ location' = loc
             /\ printed' = printed \o lm_log(program, out)
             /\ reply' = br.reply
             /\ pc' = br.next
    /\ UNCHANGED <<program, eof, query, verdict, weather_data,
                   latitude, longitude, keys, user_input, interrupted, exit_code>>

FetchCall ==
    /\ program \in Bindings /\ pc = "fetch"
    /\ calls' = Append(calls, Call("fetch", location.s))
    /\ pc' = "fetch_wait"
    /\ UNCHANGED <<program, eof, query, verdict, location, weather_data,
                   reply, printed, latitude, longitude, keys, user_input, interrupted, exit_code>>

FetchReturn ==
    /\ program \in Bindings /\ pc = "fetch_wait"
    /\ \E out \in WeatherOutcomes :
          LET d == get_weather_by_location(out)
              br == handle_fetched(location, d)
          IN /\ calls' = Completed(calls, out)
             /\ weather_data' = d
             /\ printed' = printed \o weather_log(program, out)
             /\ reply' = br.reply
             /\ pc' = br.next
    /\ UNCHANGED <<program, eof, query, verdict, location,
                   latitude, longitude, keys, user_input, interrupted, exit_code>>

\* generate_weather_response up to its language-model call; a record
\* without the keys it reads raises KeyError before the try block
ComposeCall ==
    /\ program \in Bindings /\ pc = "compose"
    /\ IF HasWeatherKeys(weather_data)
       THEN /\ calls' = Append(calls, Call("compose", query))
            /\ pc' = "compose_wait"
            /\ reply' = reply
       ELSE /\ calls' = calls
            /\ pc' = "except"
            /\ reply' = PyRaised("KeyError")
    /\ UNCHANGED <<program, eof, query, verdict, location, weather_data,
                   printed, latitude, longitude, keys, user_input, interrupted, exit_code>>

ComposeReturn ==
    /\ program \in Bindings /\ pc = "compose_wait"
    /\ \E out \in ComposerOutcomes :
          /\ calls' = Completed(calls, out)
          /\ printed' = printed \o lm_log(program, out)
          /\ reply' = generate_weather_response(query, weather_data, out)
          /\ pc' = IF reply'.tag = "raised" THEN "except" ELSE "return"
    /\ UNCHANGED <<program, eof, query, verdict, location, weather_data,
                   latitude, longitude, keys, user_input, interrupted, exit_code>>

\* main prints the reply of handle_user_query and a blank line
PrintReply ==
    /\ program \in Bindings /\ pc = "return"
    /\ printed' = printed \o <<reply.s, <<>> >>
    /\ pc' = "prompt"
    /\ UNCHANGED <<program, eof, query, calls, verdict, location,
                   weather_data, reply, latitude, longitude, keys, user_input, interrupted, exit_code>>

\* main's "except Exception", for an exception out of handle_user_query and
\* for the EOFError of input()
CatchError ==
    /\ program \in Bindings /\ pc \in {"except", "eof_raised"}
    /\ LET r == on_error(program)
       IN /\ printed' = printed \o r.lines
          /\ pc' = r.next
          /\ exit_code' = r.code
    /\ UNCHANGED <<program, eof, query, calls, verdict, location,
                   weather_data, reply, latitude, longitude, keys, user_input, interrupted>>

(***************************************************************************)
(* weather.py: the coordinate program                                       *)
(***************************************************************************)
\* a Python float: a finite number of degrees, nan, inf or -inf
Float(kind, v) == [kind |-> kind, v |-> v]

Unset == Float("unset", 0)

CoordValues ==
    {-181, -180, -179, -91, -90, -89, 0, 45, 89, 90, 91, 179, 180, 181}

\* what the user types at a coordinate prompt
CoordInputs ==
    {[form |-> "decimal", v |-> n] : n \in CoordValues}
    \cup {[form |-> f, v |-> 0] : f \in {"nan", "inf", "-inf", "text"}}

\* float(value): raises ValueError for text that is not a float literal
py_float(inp) ==
    CASE inp.form = "decimal" -> [ok |-> TRUE, value |-> Float("num", inp.v)]
      [] inp.form = "nan" -> [ok |-> TRUE, value |-> Float("nan", 0)]
      [] inp.form = "inf" -> [ok |-> TRUE, value |-> Float("inf", 0)]
      [] inp.form = "-inf" -> [ok |-> TRUE, value |-> Float("ninf", 0)]
      [] OTHER -> [ok |-> FALSE, value |-> Unset]

\* c < n and c > n on floats: every comparison with nan is false
FloatLess(c, n) == \/ c.kind = "ninf"
                   \/ c.kind = "num" /\ c.v < n

FloatGreater(c, n) == \/ c.kind = "inf"
                      \/ c.kind = "num" /\ c.v > n

Returned(c) == [raised |-> FALSE, value |-> c, msg |-> <<>>]

Raised(m) == [raised |-> TRUE, value |-> Unset, msg |-> m]

RangeMessage(coord_type) ==
    IF coord_type = "latitude"
    THEN <<"Latitude must be between -90 and 90 degrees">>
    ELSE <<"Longitude must be between -180 and 180 degrees">>

FormatMessage(coord_type) ==
    <<"Invalid ", coord_type, " format. Please enter a number.">>

\* the body of the try block of validate_coordinates
validate_try(value, coord_type) ==
    LET p == py_float(value)
        coordinate == p.value
    IN IF ~p.ok THEN Raised(<<"could not convert string to float">>)
       ELSE IF coord_type = "latitude"
               /\ (FloatLess(coordinate, -90) \/ FloatGreater(coordinate, 90))
       THEN Raised(RangeMessage(coord_type))
       ELSE IF coord_type = "longitude"
               /\ (FloatLess(coordinate, -180) \/ FloatGreater(coordinate, 180))
       THEN Raised(RangeMessage(coord_type))
       ELSE Returned(coordinate)

\* "except ValueError" catches every ValueError of the try block, the range
\* errors included, and raises the format error
validate_coordinates(value, coord_type) ==
    LET r == validate_try(value, coord_type)
    IN IF r.raised THEN Raised(FormatMessage(coord_type)) ELSE r

\* lat_input / lon_input: the line typed at a coordinate prompt
CoordLine(inp) == [tag |-> "coord", s |-> <<>>, form |-> inp.form, v |-> inp.v]

LatPrompt ==
    /\ program = "weather" /\ pc = "lat_prompt"
    /\ \E inp \in CoordInputs :
          LET r == validate_coordinates(inp, "latitude")
          IN /\ user_input' = CoordLine(inp)
             /\ IF r.raised
                THEN /\ printed' = << <<"Error: ">> \o r.msg >>
                     /\ UNCHANGED <<pc, latitude>>
                ELSE /\ latitude' = r.value
                     /\ pc' = "lon_prompt"
                     /\ printed' = <<>>
    /\ UNCHANGED <<program, eof, query, calls, verdict, location,
                   weather_data, reply, longitude, keys, interrupted, exit_code>>

LonPrompt ==
    /\ program = "weather" /\ pc = "lon_prompt"
    /\ \E inp \in CoordInputs :
          LET r == validate_coordinates(inp, "longitude")
          IN /\ user_input' = CoordLine(inp)
             /\ IF r.raised
                THEN /\ printed' = << <<"Error: ">> \o r.msg >>
                     /\ UNCHANGED <<pc, longitude>>
                ELSE /\ longitude' = r.value
                     /\ pc' = "get_weather"
                     /\ printed' = <<>>
    /\ UNCHANGED <<program, eof, query, calls, verdict, location,
                   weather_data, reply, latitude, keys, interrupted, exit_code>>

\* mutant: the request is issued whether or not the key was found
has_api_key_unchecked(k) == TRUE

\* "if not API_KEY" at the top of get_weather / get_weather_by_location
has_api_key(k) == k.weather

FailedLine ==
    <<"Failed to retrieve weather information. Please try again later.">>

\* get_weather up to requests.get; without a key it returns None at once
GetWeatherCall ==
    /\ program = "weather" /\ pc = "get_weather"
    /\ IF ~has_api_key(keys)
       THEN /\ printed' = << <<"Error: No API key found. Please create a .env file with your WEATHER_API_KEY.">>,
                             FailedLine >>
            /\ pc' = "exited"
            /\ exit_code' = 0
            /\ calls' = calls
       ELSE /\ calls' = Append(calls, Call("fetch", <<latitude, longitude>>))
            /\ pc' = "get_weather_wait"
            /\ UNCHANGED <<printed, exit_code>>
    /\ UNCHANGED <<program, eof, query, verdict, location, weather_data,
                   reply, latitude, longitude, keys, user_input, interrupted>>

\* get_weather: None unless the status is 200 and the body parses
get_weather(out) ==
    IF out.kind = "http" /\ out.status = 200 /\ out.body.tag # "unparseable"
    THEN out.body
    ELSE NoData

\* the rest of get_weather, then display_weather or the failure line
GetWeatherReturn ==
    /\ program = "weather" /\ pc = "get_weather_wait"
    /\ \E out \in WeatherOutcomes :
          LET d == get_weather(out)
          IN /\ calls' = Completed(calls, out)
             /\ weather_data' = d
             /\ printed' = IF ~TruthyData(d) THEN <<FailedLine>>
                            ELSE IF "current" \notin d.has
                            THEN << <<"No weather data available to display.">> >>
                            ELSE << <<"The current weather for this location is:">> >>
    /\ pc' = "exited"
    /\ exit_code' = 0
    /\ UNCHANGED <<program, eof, query, verdict, location, reply,
                   latitude, longitude, keys, user_input, interrupted>>

(***************************************************************************)
(* ex02/weather_geoloc.py: the location program                             *)
(***************************************************************************)
GeoLines == { Paris, <<" ">> \o Paris, <<"Z","z","q">>, <<>>, <<" ", "\t">> }

NoKeyLine ==
    <<"Error: No API key found. Please create a .env file with your WEATHER_API_KEY.">>

GeoFailedLine ==
    <<"Failed to retrieve weather information. Please try a different location or try again later.">>

\* printed by get_weather_by_location of weather_geoloc.py
geoloc_log(loc, out) ==
    IF out.kind # "http" \/ (out.status = 200 /\ out.body.tag = "unparseable")
    THEN << <<"Error: ", "Failed to connect to the weather API: ">> >>
    ELSE IF out.status = 200 THEN <<>>
    ELSE IF out.status = 400
         THEN << <<"Error: ", "Could not find location '">> \o loc \o <<"'">> >>
    ELSE << <<"Error: ", "API request failed with status code ", ToString(out.status)>>,
            <<"Response: ">> >>

\* input("Location?: ") returns a line; an empty one ends with sys.exit(1)
GeoPrompt ==
    /\ program = "geoloc" /\ pc = "geo_prompt"
    /\ \E line \in GeoLines :
          /\ user_input' = PyStr(line)
          /\ IF Strip(line) = <<>>
             THEN /\ printed' = << <<"Error: Location cannot be empty.">> >>
                  /\ pc' = "exited"
                  /\ exit_code' = 1
                  /\ location' = location
             ELSE /\ printed' = <<>>
                  /\ pc' = "geo_fetch"
                  /\ exit_code' = exit_code
                  /\ location' = PyStr(line)
    /\ UNCHANGED <<program, eof, query, calls, verdict, weather_data, reply,
                   latitude, longitude, keys, interrupted>>

\* get_weather_by_location up to requests.get; without a key it returns None
GeoFetchCall ==
    /\ program = "geoloc" /\ pc = "geo_fetch"
    /\ IF ~has_api_key(keys)
       THEN /\ printed' = <<NoKeyLine, GeoFailedLine>>
            /\ pc' = "exited"
            /\ exit_code' = 0
            /\ calls' = calls
       ELSE /\ calls' = Append(calls, Call("fetch", location.s))
            /\ pc' = "geo_wait"
            /\ UNCHANGED <<printed, exit_code>>
    /\ UNCHANGED <<program, eof, query, verdict, location, weather_data,
                   reply, latitude, longitude, keys, user_input, interrupted>>

\* the rest of get_weather_by_location, then display_weather or the failure
\* line; main returns
GeoFetchReturn ==
    /\ program = "geoloc" /\ pc = "geo_wait"
    /\ \E out \in WeatherOutcomes :
          LET d == get_weather_by_location(out)
          IN /\ calls' = Completed(calls, out)
             /\ weather_data' = d
             /\ printed' = geoloc_log(location.s, out) \o
                    (IF ~TruthyData(d) THEN <<GeoFailedLine>>
                     ELSE IF "current" \notin d.has
                     THEN << <<"No weather data available to display.">> >>
                     ELSE << <<"\n", "The current weather in ">> \o d.name
                             \o <<" is:">> >>)
    /\ pc' = "exited"
    /\ exit_code' = 0
    /\ UNCHANGED <<program, eof, query, verdict, location, reply,
                   latitude, longitude, keys, user_input, interrupted>>

Scripts == {"weather", "geoloc"}

\* input() raises EOFError in a script: main's "except Exception", sys.exit(1)
ScriptEOF ==
    /\ program \in Scripts
    /\ pc \in {"lat_prompt", "lon_prompt", "geo_prompt"}
    /\ eof' = TRUE
    /\ printed' = << <<"An unexpected error occurred: ">> >>
    /\ pc' = "exited"
    /\ exit_code' = 1
    /\ UNCHANGED <<program, query, calls, verdict, location, weather_data,
                   reply, latitude, longitude, keys, user_input, interrupted>>

Programs == Bindings \cup Scripts

Init ==
    /\ program \in Programs
    /\ keys \in [weather : BOOLEAN, lm : BOOLEAN]
    /\ program \in Scripts => keys.lm
    /\ pc = CASE program = "weather" -> "lat_prompt"
              [] program = "geoloc" -> "geo_prompt"
              [] OTHER -> "start"
    /\ eof = FALSE
    /\ query = <<>>
    /\ calls = <<>>
    /\ verdict = FALSE
    /\ location = PyNone
    /\ weather_data = NoData
    /\ reply = PyNone
    /\ printed = <<>>
    /\ latitude = Unset
    /\ longitude = Unset
    /\ exit_code = Running
    /\ user_input = PyNone
    /\ interrupted = FALSE

Next ==
    \/ Startup
    \/ Prompt
    \/ PromptEOF
    \/ Interrupt
    \/ ClassifyCall
    \/ ClassifyReturn
    \/ ExtractCall
    \/ ExtractReturn
    \/ FetchCall
    \/ FetchReturn
    \/ ComposeCall
    \/ ComposeReturn
    \/ PrintReply
    \/ CatchError
    \/ LatPrompt
    \/ LonPrompt
    \/ GetWeatherCall
    \/ GetWeatherReturn
    \/ GeoPrompt
    \/ GeoFetchCall
    \/ GeoFetchReturn
    \/ ScriptEOF

Spec == Init /\ [][Next]_vars

\* the steps the process takes by itself once it can: everything but a line
\* typed by the user and the interrupt signal. input() on an ended stream
\* raises EOFError at once, so PromptEOF is one of them.
ProgramStep ==
    \/ Startup
    \/ PromptEOF
    \/ ClassifyCall
    \/ ClassifyReturn
    \/ ExtractCall
    \/ ExtractReturn
    \/ FetchCall
    \/ FetchReturn
    \/ ComposeCall
    \/ ComposeReturn
    \/ PrintReply
    \/ CatchError
    \/ GetWeatherCall
    \/ GetWeatherReturn
    \/ GeoFetchCall
    \/ GeoFetchReturn
    \/ ScriptEOF

\* the process keeps running while it has a step to take
FairSpec == Spec /\ WF_vars(ProgramStep)

(***************************************************************************)
(* Properties                                                               *)
(***************************************************************************)
Bot == program \in Bindings

\* the i-th outbound call of the current query has completed
Done(i) == Len(calls) >= i /\ calls[i].out.kind # "pending"

StageOrder == <<"classify", "extract", "fetch", "compose">>

RedirectText ==
    <<"I'm a weather assistant. Please ask me about the weather in a specific location.">>

ClarificationText ==
    <<"I couldn't determine which location you're asking about. Could you please specify a city or place?">>

NotFoundText(L) ==
    <<"I couldn't find weather information for '">> \o L
    \o <<"'. Please check the spelling or try a different location.">>

\* C1: whenever the classifier has returned false for the current query,
\* handle_user_query returns exactly the redirect message and the only
\* outbound call of the query is the classifier's: extractor, fetcher and
\* composer are not invoked.
C1_RedirectOnNonWeather ==
    (Bot /\ Done(1) /\ ~verdict) =>
        /\ reply = PyStr(RedirectText)
        /\ Len(calls) = 1
        /\ calls[1].stage = "classify"
        /\ pc \in {"return", "prompt", "exited"}

C1_Witness ==
    /\ Bot /\ pc = "return" /\ Done(1) /\ ~verdict
    /\ calls[1].out = LMText(<<"N","O">>)
    /\ reply.s = RedirectText

\* C2: whenever the query was classified as weather-related and the
\* extractor returned None, handle_user_query returns exactly the
\* clarification message and neither the fetcher nor the composer is called.
C2_ClarifyOnAbsentLocation ==
    (Bot /\ Done(2) /\ verdict /\ location = PyNone) =>
        /\ reply = PyStr(ClarificationText)
        /\ Len(calls) = 2
        /\ calls[2].stage = "extract"
        /\ pc \in {"return", "prompt", "exited"}

C2_Witness ==
    /\ Bot /\ pc = "return" /\ Done(2) /\ verdict /\ location = PyNone
    /\ calls[2].out = LMText(UNKNOWN)
    /\ reply.s = ClarificationText

\* C3: whenever the fetcher has returned None for the extracted location L
\* (status 400, another non-200 status, a transport failure or a body that
\* does not parse), handle_user_query returns the not-found message built
\* from L alone, the request was made for L, and the composer is not called.
C3_NotFoundNamesLocation ==
    (Bot /\ Done(3) /\ weather_data = NoData) =>
        /\ calls[3].stage = "fetch"
        /\ calls[3].arg = location.s
        /\ calls[3].out.kind = "transport"
             \/ calls[3].out.status # 200
             \/ calls[3].out.body.tag = "unparseable"
        /\ reply = PyStr(NotFoundText(location.s))
        /\ Len(calls) = 3
        /\ pc \in {"return", "prompt", "exited"}

C3_Witness ==
    /\ Bot /\ pc = "return" /\ Done(3) /\ weather_data = NoData
    /\ calls[3].out = Http(500, NoData)
    /\ location.s = <<"Z","z","q">>
    /\ reply.s = NotFoundText(<<"Z","z","q">>)

\* C4: when the classifier returned true, the extractor a location and the
\* fetcher a weather record, handle_user_query returns what the composer
\* returns: the stripped language-model text when the composer's call
\* succeeded, the fallback sentence of the record when it failed, and never
\* one of the three fixed messages.
C4_ComposerOutput ==
    (Bot /\ pc = "return" /\ verdict /\ TruthyStr(location)
         /\ TruthyData(weather_data) /\ HasWeatherKeys(weather_data)
         /\ weather_data.cloud # Null) =>
        /\ Len(calls) = 4 /\ calls[4].stage = "compose" /\ Done(4)
        /\ reply.tag = "str"
        /\ calls[4].out.kind = "text" => reply.s = Strip(calls[4].out.text)
        /\ calls[4].out.kind # "text" => reply.s = FallbackSentence(weather_data)
        /\ reply.s \notin {RedirectText, ClarificationText,
                            NotFoundText(location.s)}

C4_Witness ==
    /\ Bot /\ pc = "return" /\ verdict /\ TruthyStr(location)
    /\ HasWeatherKeys(weather_data) /\ Done(4)
    /\ calls[4].out = LMText(<<" ", "It is 30 degrees.", "\n">>)
    /\ reply.s = <<"It is 30 degrees.">>

\* C5: the outbound calls of one query are a prefix of classify, extract,
\* fetch, compose; only the last one can be in flight; a stage is called only
\* after every earlier stage gave a positive result; so no stage is called
\* twice: at most one weather request and at most three language-model calls.
C5_StrictPipeline ==
    Bot =>
        /\ Len(calls) <= 4
        /\ \A i \in 1..Len(calls) : calls[i].stage = StageOrder[i]
        /\ \A i \in 1..Len(calls) : i < Len(calls) => calls[i].out.kind # "pending"
        /\ Len(calls) >= 2 => Done(1) /\ verdict
        /\ Len(calls) >= 3 =>
               /\ location.tag = "str" /\ location.s # <<>>
               /\ calls[3].arg = location.s
        /\ Len(calls) >= 4 =>
               /\ calls[3].out.kind = "http" /\ calls[3].out.status = 200
               /\ weather_data.tag = "dict" /\ weather_data = calls[3].out.body
        /\ Cardinality({i \in 1..Len(calls) : calls[i].stage = "fetch"}) <= 1
        /\ Cardinality({i \in 1..Len(calls) : calls[i].stage # "fetch"}) <= 3

C5_Witness ==
    /\ Bot /\ pc = "compose_wait" /\ Len(calls) = 4
    /\ calls[4].stage = "compose" /\ calls[4].out = Pending
    /\ Done(1) /\ Done(2) /\ Done(3)

NO == <<"N","O">>

\* C6 as stated: if the classifier's call raises or its reply is neither
\* YES nor NO, is_weather_query returns true.
C6_FailOpenOnAnyBadReply ==
    (Bot /\ Done(1)
         /\ \/ calls[1].out.kind # "text"
            \/ Upper(Strip(calls[1].out.text)) \notin {YES, NO}) => verdict

\* C6 amended: in every binding is_weather_query returns true when the
\* call raises or the response has no text to read, and returns false for
\* a textual reply that is neither YES nor NO in any letter case.
C6_FailOpenOnException ==
    (Bot /\ Done(1)) =>
        /\ calls[1].out.kind # "text" => verdict
        /\ (calls[1].out.kind = "text"
               /\ Upper(Strip(calls[1].out.text)) \notin {YES, NO}) => ~verdict

C6_Witness ==
    /\ Bot /\ pc = "extract" /\ Done(1) /\ calls[1].out = LMRaise /\ verdict

\* C7: in every binding a trimmed reply that equals YES in any letter case
\* gives verdict true and one that equals NO in any letter case gives false.
C7_CaseInsensitiveVerdict ==
    (Bot /\ Done(1) /\ calls[1].out.kind = "text") =>
        /\ Upper(Strip(calls[1].out.text)) = YES => verdict
        /\ Upper(Strip(calls[1].out.text)) = NO => ~verdict

\* C8: the extractor returns None for the reply UNKNOWN, for a call that
\* raises and for a response without text; whatever it returns is None or
\* the trimmed reply, never another location; it calls the backend once.
C8_ExtractorAbsence ==
    (Bot /\ Done(2)) =>
        /\ calls[2].out.kind # "text" => location = PyNone
        /\ (calls[2].out.kind = "text" /\ Strip(calls[2].out.text) = UNKNOWN)
              => location = PyNone
        /\ location # PyNone =>
              /\ calls[2].out.kind = "text"
              /\ location = PyStr(Strip(calls[2].out.text))
        /\ Cardinality({i \in 1..Len(calls) : calls[i].stage = "extract"}) = 1

C8_Witness ==
    /\ Bot /\ pc = "return" /\ Done(2) /\ calls[2].out = LMRaise
    /\ location = PyNone /\ Len(calls) = 2

\* C9: for a trimmed extractor reply that equals UNKNOWN up to letter case,
\* the Groq and OpenAI bindings return None; the Claude and Gemini bindings
\* return None only for the exact uppercase word and otherwise return the
\* reply as the location, which is the locator of the weather request.
C9_SentinelCaseByBinding ==
    (Bot /\ Done(2) /\ calls[2].out.kind = "text"
         /\ Upper(Strip(calls[2].out.text)) = UNKNOWN) =>
        /\ program \in {"groq", "openai"} => location = PyNone /\ Len(calls) = 2
        /\ (program \in {"claude", "gemini"} /\ Strip(calls[2].out.text) = UNKNOWN)
              => location = PyNone /\ Len(calls) = 2
        /\ (program \in {"claude", "gemini"} /\ Strip(calls[2].out.text) # UNKNOWN)
              => /\ location = PyStr(Strip(calls[2].out.text))
                 /\ pc = "fetch" \/ (interrupted /\ Len(calls) = 2)
                      \/ (Len(calls) >= 3 /\ calls[3].stage = "fetch"
                             /\ calls[3].arg = Strip(calls[2].out.text))

C9_Witness ==
    /\ program = "claude" /\ Done(3)
    /\ calls[2].out = LMText(<<"u","n","k","n","o","w","n">>)
    /\ calls[3].stage = "fetch" /\ calls[3].arg = <<"u","n","k","n","o","w","n">>

InRange(c, lo, hi) == c.kind = "num" /\ lo <= c.v /\ c.v <= hi

\* C10: in weather.py an accepted latitude lies in [-90, 90] and an accepted
\* longitude in [-180, 180], and no weather request is issued with a value
\* outside its range.
C10_AcceptedCoordinatesInRange ==
    program = "weather" =>
        /\ latitude # Unset => InRange(latitude, -90, 90)
        /\ longitude # Unset => InRange(longitude, -180, 180)
        /\ \A i \in 1..Len(calls) :
              /\ InRange(calls[i].arg[1], -90, 90)
              /\ InRange(calls[i].arg[2], -180, 180)

\* position of the weather request in the call log of the running program
FetchIndex == IF Bot THEN 3 ELSE 1

ErrorPrefixes ==
    {"Error connecting to weather API: ",
     "Error: API request failed with status code ", "Error: "}

\* C11: get_weather_by_location (chatbots and weather_geoloc.py) always
\* returns a value: the parsed body for status 200 with a body that parses,
\* None for status 400, and None after printing an error line for any other
\* status, for a body that does not parse and for a transport failure.
C11_FetcherAbsorbsFailures ==
    (program \in Bindings \cup {"geoloc"} /\ Done(FetchIndex)) =>
        LET out == calls[FetchIndex].out
            parsed == out.kind = "http" /\ out.status = 200
                      /\ out.body.tag = "dict"
            notfound == out.kind = "http" /\ out.status = 400
        IN /\ calls[FetchIndex].stage = "fetch"
           /\ weather_data.tag \in {"None", "dict"}
           /\ parsed => weather_data = out.body
           /\ notfound => weather_data = NoData
           /\ (~parsed /\ ~notfound) =>
                 /\ weather_data = NoData
                 /\ \E i \in 1..Len(printed) :
                      printed[i] # <<>> /\ printed[i][1] \in ErrorPrefixes

C11_Witness ==
    /\ program = "geoloc" /\ Done(1) /\ calls[1].out = Transport
    /\ weather_data = NoData /\ pc = "exited"
    /\ printed[1] = <<"Error: ", "Failed to connect to the weather API: ">>

FallbackHead == "The current weather in "

\* the reply has one of the five shapes of handle_user_query
FiveShapes(r) ==
    /\ r.tag = "str"
    /\ \/ r.s = RedirectText
       \/ r.s = ClarificationText
       \/ r.s = NotFoundText(location.s)
       \/ Done(4) /\ calls[4].out.kind = "text" /\ r.s = Strip(calls[4].out.text)
       \/ Done(4) /\ calls[4].out.kind # "text" /\ r.s # <<>>
            /\ r.s[1] = FallbackHead

\* C12: handle_user_query never raises, whatever the backends answer, and
\* what it returns has one of the five reply shapes.
C12_HandleNeverRaises ==
    Bot => /\ reply.tag # "raised"
           /\ pc # "except"
           /\ pc = "return" => FiveShapes(reply)

\* sub occurs in s as a run of consecutive chunks
Contains(s, sub) ==
    \E i \in 0..(Len(s) - Len(sub)) : SubSeq(s, i + 1, i + Len(sub)) = sub

\* the composer's call has failed for the current query
ComposerFailed == Bot /\ Done(4) /\ calls[4].out.kind # "text"

\* the sentence of the claim, from the formatted fields
FallbackTemplate(name, temp, hum, clouds, wind) ==
    <<"The current weather in ">> \o name \o <<" is a temperature of ">>
    \o temp \o <<" degrees (C), a humidity of ">> \o hum
    \o <<"%", ", ", "there are ", clouds, " in the sky and a wind of ">>
    \o wind \o <<"km/h", ".">>

ScenarioE ==
    /\ weather_data.temp_c = Num(30, -1) /\ weather_data.humidity = Num(40, -1)
    /\ weather_data.cloud = Num(80, -1) /\ weather_data.wind_kph = Num(15, -1)

\* C13: when the composer's call fails, the reply is the template filled
\* with the record's name, temperature, humidity, cloud wording and wind
\* speed and with nothing else (not the query, the binding, the country, the
\* condition or the kind of failure); for temp_c=30, humidity=40, cloud=80,
\* wind_kph=15 it contains "30", "40%", "a lot of clouds" and "15km/h".
C13_FallbackSentence ==
    (ComposerFailed /\ weather_data.cloud # Null) =>
        /\ \E clouds \in {"a lot of clouds", "few clouds"} :
              reply = PyStr(FallbackTemplate(weather_data.name,
                                Fmt(weather_data.temp_c),
                                Fmt(weather_data.humidity), clouds,
                                Fmt(weather_data.wind_kph)))
        /\ ScenarioE =>
              /\ Contains(reply.s, <<"30">>)
              /\ Contains(reply.s, <<"40", "%">>)
              /\ Contains(reply.s, <<"a lot of clouds">>)
              /\ Contains(reply.s, <<"15", "km/h">>)

C13_Witness ==
    /\ ComposerFailed /\ ScenarioE /\ pc = "return"
    /\ calls[4].out = LMRaise
    /\ Contains(reply.s, <<"40", "%">>)

\* C14: in the fallback sentence of every binding an integer cloud cover of
\* 50 or less reads "there are few clouds" and one of 51 or more reads
\* "there are a lot of clouds".
C14_StrictCloudThreshold ==
    (ComposerFailed /\ weather_data.cloud.frac = -1) =>
        /\ weather_data.cloud.i <= 50 =>
              /\ Contains(reply.s, <<"there are ", "few clouds">>)
              /\ ~Contains(reply.s, <<"a lot of clouds">>)
        /\ weather_data.cloud.i >= 51 =>
              /\ Contains(reply.s, <<"there are ", "a lot of clouds">>)
              /\ ~Contains(reply.s, <<"few clouds">>)

C14_Witness ==
    /\ ComposerFailed /\ program = "gemini" /\ pc = "return"
    /\ weather_data.cloud = Num(50, -1)
    /\ Contains(reply.s, <<"there are ", "few clouds">>)

\* C15: whenever the composer's call has failed, whatever truthy body the
\* fetcher returned, generate_weather_response returns the fallback sentence:
\* it does not raise and makes no further call.
C15_FallbackNeverFails ==
    ComposerFailed =>
        /\ reply.tag = "str"
        /\ reply.s # <<>> /\ reply.s[1] = FallbackHead
        /\ pc # "except"
        /\ Len(calls) = 4

\* C16: once the line read is exit, quit, bye or goodbye in any letter case,
\* the loop has ended with the farewell message and exit status 0 and no
\* stage of the pipeline has been called for that line.
C16_ExitKeywordEndsLoop ==
    (Bot /\ user_input.tag = "str" /\ Lower(user_input.s) \in ExitKeywords) =>
        /\ pc = "exited"
        /\ printed = << <<"Goodbye! Have a great day!">> >>
        /\ exit_code = 0
        /\ calls = <<>>
        /\ reply = PyNone

C16_Witness ==
    /\ Bot /\ user_input = PyStr(<<"g","o","o","d","B","Y","E">>)
    /\ pc = "exited" /\ calls = <<>> /\ exit_code = 0

\* C17: an empty or whitespace-only line makes no outbound call, prints the
\* reminder and leaves main at the prompt; and whenever handle_user_query
\* runs, its argument is the line read and has a non-whitespace character.
C17_EmptyInputSkipsPipeline ==
    Bot =>
        /\ (user_input.tag = "str" /\ \A i \in 1..Len(user_input.s) :
                                          user_input.s[i] \in Whitespace) =>
              /\ pc = "prompt"
              /\ printed = << <<"Please ask a question about the weather.">> >>
              /\ calls = <<>>
              /\ exit_code = Running
        /\ (calls # <<>> \/ pc \in {"classify", "classify_wait"}) =>
              /\ user_input.tag = "str" => user_input.s = query
              /\ \E i \in 1..Len(query) : query[i] \notin Whitespace
              /\ \A i \in 1..Len(calls) :
                    calls[i].stage # "fetch" => calls[i].arg = query

C17_Witness ==
    /\ Bot /\ user_input = PyStr(<<" ", "\t">>) /\ pc = "prompt"
    /\ printed = <<Reminder>> /\ calls = <<>>

\* C18: once a KeyboardInterrupt has been delivered at the prompt or while a
\* query is processed, the program has left its loop for good: the last line
\* printed is the farewell (the termination line in the two scripts) and the
\* exit status is 0.
C18_InterruptEndsLoop ==
    interrupted =>
        /\ pc = "exited"
        /\ exit_code = 0
        /\ printed # <<>>
        /\ Bot => printed[Len(printed)] = <<"\n", "Goodbye! Have a great day!">>
        /\ ~Bot => printed[Len(printed)] = <<"\n", "Program terminated by user.">>

C18_Witness ==
    /\ Bot /\ interrupted /\ pc = "exited" /\ exit_code = 0
    /\ Len(calls) = 3 /\ calls[3].out = Pending

MissingKeyText(b) ==
    CASE b = "groq" -> <<"Error: ", "Groq", " API key not found. Please add ",
                         "GROQ_API_KEY", " to your .env file.">>
      [] b = "claude" -> <<"Error: ", "Claude", " API key not found. Please add ",
                           "ANTHROPIC_API_KEY", " to your .env file.">>
      [] b = "gemini" -> <<"Error: ", "Gemini", " API key not found. Please add ",
                           "GEMINI_API_KEY", " to your .env file.">>
      [] OTHER -> <<"Error: ", "OpenAI", " API key not found. Please add ",
                    "OPENAI_API_KEY", " to your .env file.">>

\* C19: a chatbot started without the weather key or without its
\* language-model key never reaches the prompt: it reads no line and makes no
\* call, and it ends with status 1 after printing the message of the first
\* missing key.
C19_MissingKeyIsFatal ==
    (Bot /\ (~keys.weather \/ ~keys.lm)) =>
        /\ pc \in {"start", "exited"}
        /\ calls = <<>>
        /\ user_input = PyNone
        /\ ~interrupted /\ ~eof
        /\ pc = "start" => exit_code = Running /\ printed = <<>>
        /\ pc = "exited" =>
              /\ exit_code = 1
              /\ ~keys.weather => printed = << <<"Error: WeatherAPI key not found. Please add WEATHER_API_KEY to your .env file.">> >>
              /\ keys.weather => printed = <<MissingKeyText(program)>>

C19_Witness ==
    /\ program = "claude" /\ keys.weather /\ ~keys.lm
    /\ pc = "exited" /\ exit_code = 1
    /\ printed = <<MissingKeyText("claude")>>

\* the value handle_user_query hands to main, computed from nothing but the
\* binding and the arguments and outcomes of the calls made for one query
ReplyOf(b, log) ==
    IF ~is_weather_query(b, log[1].out) THEN PyStr(RedirectText)
    ELSE LET loc == extract_location_from_query(b, log[2].out)
         IN IF ~TruthyStr(loc) THEN PyStr(ClarificationText)
            ELSE LET d == get_weather_by_location(log[3].out)
                 IN IF ~TruthyData(d) THEN PyStr(NotFoundText(loc.s))
                    ELSE IF ~HasWeatherKeys(d) THEN PyRaised("KeyError")
                    ELSE generate_weather_response(log[1].arg, d, log[4].out)

\* the arguments of the calls made for one query come from that query's text
\* and from the outcomes of its earlier calls
ArgsOf(b, log) ==
    \A i \in 1..Len(log) :
        IF log[i].stage = "fetch"
        THEN log[i].arg = extract_location_from_query(b, log[2].out).s
        ELSE log[i].arg = log[1].arg

\* C20: every step leaves the keys and the binding as they were at startup,
\* and whenever handle_user_query returns or raises, its result is a function
\* of the query text and of the outcomes of the calls made for that query;
\* a line read at the prompt starts from an empty call log.
C20_NoStateAcrossQueries ==
    [][/\ keys' = keys
       /\ program' = program
       /\ (Bot /\ pc = "prompt" /\ pc' = "classify") =>
             calls' = <<>> /\ printed' = <<>> /\ query' = user_input'.s
       /\ (Bot /\ calls' # <<>>) =>
             calls'[1].arg = query' /\ ArgsOf(program', calls')
       /\ (Bot /\ pc # pc' /\ pc' \in {"return", "except"}) =>
             reply' = ReplyOf(program', calls')]_vars

C20_Witness ==
    /\ Bot /\ pc = "return" /\ Len(calls) = 4
    /\ calls[4].out.kind = "text"
    /\ reply = ReplyOf(program, calls) /\ reply.tag = "str"
    /\ keys.weather /\ keys.lm

\* the number of backend calls binding b makes for the outcomes of the log, as
\* far as the log records them
StagesOf(b, log) ==
    IF ~is_weather_query(b, log[1].out) THEN 1
    ELSE IF Len(log) < 2 THEN 2
    ELSE LET loc == extract_location_from_query(b, log[2].out)
         IN IF ~TruthyStr(loc) THEN 2
            ELSE IF Len(log) < 3 THEN 3
            ELSE LET d == get_weather_by_location(log[3].out)
                 IN IF ~TruthyData(d) \/ ~HasWeatherKeys(d) THEN 3 ELSE 4

\* C21: when handle_user_query of the running binding has returned or raised,
\* each of the four bindings, given the same query and the same raw backend
\* outcomes, invokes the same stages, sends the same locator to the weather
\* provider and produces the same reply.
C21_BindingsAgree ==
    (Bot /\ pc \in {"return", "except"}) =>
        \A b \in Bindings :
            /\ StagesOf(b, calls) = Len(calls)
            /\ Len(calls) >= 3 =>
                  calls[3].arg = extract_location_from_query(b, calls[2].out).s
            /\ reply = ReplyOf(b, calls)

\* the last two lines printed are the ones of main's "except Exception"
ApologyPrinted(out) ==
    /\ Len(out) >= 2
    /\ out[Len(out) - 1] = <<"An error occurred: ">>
    /\ out[Len(out)] = <<"Please try again with a different question.">>

\* C22: an exception that escapes handle_user_query is caught by main: the
\* two-line apology is printed, the process keeps running and the next step
\* is the prompt; and the loop, once entered, is left only by an exit keyword
\* or by an interrupt, with exit status 0.
C22_FailureKeepsSession ==
    [][/\ (Bot /\ pc = "except") =>
             /\ pc' = "prompt"
             /\ exit_code' = Running
             /\ ApologyPrinted(printed')
       /\ (Bot /\ pc \notin {"start", "exited"} /\ pc' = "exited") =>
             /\ exit_code' = 0
             /\ \/ interrupted'
                \/ /\ pc = "prompt" /\ user_input'.tag = "str"
                   /\ Lower(user_input'.s) \in ExitKeywords
       /\ (Bot /\ reply'.tag = "raised" /\ reply # reply') =>
             pc' = "except"]_vars

C22_Witness ==
    /\ Bot /\ pc = "prompt" /\ reply.tag = "raised"
    /\ ApologyPrinted(printed) /\ exit_code = Running /\ ~interrupted

\* C23: in weather.py the longitude prompt is reached only with a valid
\* latitude in hand, get_weather is reached only with a valid latitude and a
\* valid longitude, nothing is requested before that, and the single request
\* carries exactly the accepted pair.
C23_CoordinatePromptOrder ==
    program = "weather" =>
        /\ pc = "lat_prompt" =>
              latitude = Unset /\ longitude = Unset /\ calls = <<>>
        /\ pc = "lon_prompt" =>
              InRange(latitude, -90, 90) /\ longitude = Unset /\ calls = <<>>
        /\ pc \in {"get_weather", "get_weather_wait"} =>
              InRange(latitude, -90, 90) /\ InRange(longitude, -180, 180)
        /\ pc = "get_weather" => calls = <<>>
        /\ Len(calls) <= 1
        /\ calls # <<>> =>
              /\ calls[1].stage = "fetch"
              /\ calls[1].arg = <<latitude, longitude>>
              /\ latitude # Unset /\ longitude # Unset

\* the coordinate prompt that printed the error line on screen
Rejected(coord_type) ==
    /\ program = "weather" /\ user_input.tag = "coord" /\ printed # <<>>
    /\ pc = IF coord_type = "latitude" THEN "lat_prompt" ELSE "lon_prompt"

\* C24: when validate_coordinates has rejected a line, the message that
\* reached main tells the cause: a line that is a number gets the range
\* message of its coordinate, and the format message is seen only for a line
\* that is not a number.
C24_DistinctErrorCauses ==
    /\ Rejected("latitude") =>
          /\ user_input.form # "text" =>
                printed = << <<"Error: ", "Latitude must be between -90 and 90 degrees">> >>
          /\ user_input.form = "text" =>
                printed = << <<"Error: ", "Invalid ", "latitude", " format. Please enter a number.">> >>
    /\ Rejected("longitude") =>
          /\ user_input.form # "text" =>
                printed = << <<"Error: ", "Longitude must be between -180 and 180 degrees">> >>
          /\ user_input.form = "text" =>
                printed = << <<"Error: ", "Invalid ", "longitude", " format. Please enter a number.">> >>

\* C25: once reading the prompt of a chatbot has hit end-of-input, the loop
\* eventually exits.
C25_EndOfInputTerminates ==
    (Bot /\ eof) ~> (pc = "exited")

\* every language-model call made for the current query has failed (or is
\* still in flight)
AllLMFailed ==
    /\ Bot
    /\ \A i \in 1..Len(calls) :
          calls[i].stage \in {"classify", "extract", "compose"} =>
              calls[i].out.kind \in {"pending", "raise", "notext"}

\* C26: while every language-model call of the query fails, the classifier's
\* verdict is true, the extractor's location is absent, no weather request and
\* no composer call is made, the redirect message is never the reply, and
\* what handle_user_query returns is the clarification message.
C26_BackendDownMeansClarification ==
    AllLMFailed =>
        /\ Len(calls) <= 2
        /\ \A i \in 1..Len(calls) : calls[i].stage = StageOrder[i]
        /\ Done(1) => verdict
        /\ Done(2) => location = PyNone
        /\ reply \in {PyNone, PyStr(ClarificationText)}
        /\ pc \notin {"fetch", "fetch_wait", "compose", "compose_wait", "except"}
        /\ pc = "return" => Done(2) /\ reply = PyStr(ClarificationText)
        /\ Done(2) => reply = PyStr(ClarificationText)

C26_Witness ==
    /\ Bot /\ pc = "return" /\ Len(calls) = 2
    /\ calls[1].out = LMRaise /\ calls[2].out = LMRaise
    /\ query = <<"Tell me a joke">>
    /\ reply = PyStr(ClarificationText)

\* C27: an extractor reply that is empty after trimming ends the query with
\* the clarification message after two calls, and the locator of every
\* weather request of a chatbot is the trimmed extractor reply, which is not
\* empty.
C27_NoEmptyLocator ==
    Bot =>
        /\ (Done(2) /\ calls[2].out.kind = "text"
                    /\ \A k \in 1..Len(calls[2].out.text) :
                          calls[2].out.text[k] \in Whitespace) =>
              /\ Len(calls) = 2
              /\ location = PyStr(<<>>)
              /\ reply = PyStr(ClarificationText)
              /\ pc \in {"return", "prompt", "exited"}
        /\ \A i \in 1..Len(calls) :
              calls[i].stage = "fetch" =>
                  /\ calls[i].arg # <<>>
                  /\ calls[i].arg[1] \notin Whitespace
                  /\ calls[i].arg[Len(calls[i].arg)] \notin Whitespace
                  /\ calls[2].out.kind = "text"
                  /\ calls[i].arg = Strip(calls[2].out.text)
        /\ pc \in {"fetch", "fetch_wait"} => TruthyStr(location)

C27_Witness ==
    /\ Bot /\ pc = "return" /\ Len(calls) = 2
    /\ calls[2].out = LMText(<<" ", "\n">>)
    /\ location = PyStr(<<>>)
    /\ reply = PyStr(ClarificationText)

\* the line read by weather_geoloc.py is empty or whitespace-only
BlankLocation ==
    /\ program = "geoloc" /\ user_input.tag = "str"
    /\ \A k \in 1..Len(user_input.s) : user_input.s[k] \in Whitespace

\* C28: weather.py and weather_geoloc.py started without WEATHER_API_KEY
\* still prompt; they never issue a request, the fetch yields absence and the
\* run ends with the no-key line and the failure line, and exit status 1
\* comes only from end-of-input or an empty location. In weather_geoloc.py an
\* empty or whitespace-only location ends the run with status 1 and no
\* request, with or without the key.
C28_ScriptsWithoutKey ==
    program \in Scripts =>
        /\ ~keys.weather =>
              /\ calls = <<>>
              /\ weather_data = NoData
              /\ pc \notin {"get_weather_wait", "geo_wait"}
              /\ exit_code = 1 => eof \/ BlankLocation
              /\ (pc = "exited" /\ ~interrupted /\ ~eof /\ ~BlankLocation) =>
                    /\ exit_code = 0
                    /\ user_input.tag # "None"
                    /\ Len(printed) = 2
                    /\ printed[1] = <<"Error: No API key found. Please create a .env file with your WEATHER_API_KEY.">>
                    /\ printed[2] = IF program = "weather"
                                    THEN <<"Failed to retrieve weather information. Please try again later.">>
                                    ELSE <<"Failed to retrieve weather information. Please try a different location or try again later.">>
        /\ BlankLocation =>
              /\ pc = "exited"
              /\ exit_code = 1
              /\ calls = <<>>
              /\ printed = << <<"Error: Location cannot be empty.">> >>

C28_Witness ==
    /\ program = "weather" /\ ~keys.weather
    /\ latitude = Float("num", 45) /\ longitude = Float("num", -179)
    /\ pc = "exited" /\ exit_code = 0 /\ calls = <<>>
    /\ printed = << NoKeyLine, FailedLine >>

====
